---- MODULE Spec2Model ----
(***************************************************************************)
(* DeepWiki-Like: the chunking and indexing pipeline of                    *)
(* src/deepwiki/indexer.py (DocumentChunker, VectorIndexer), its           *)
(* configuration (src/deepwiki/config.py) and the search of                *)
(* src/deepwiki/retriever.py (DocumentRetriever).                          *)
(*                                                                         *)
(* A text is a sequence of one-character strings.  Python's slicing,       *)
(* str.rfind, str.strip, str.split, str.join and the header regular        *)
(* expression are operators that compute what the library computes,        *)
(* negative indices included.  chunk_document is a state machine whose     *)
(* steps are the header pass, the loop over the header segments and every  *)
(* iteration of the sliding-window loop of _split_by_size.  The store is   *)
(* the set of the entries of the collection; distances and similarity      *)
(* scores are counted in tenths.                                           *)
(***************************************************************************)
EXTENDS Integers, Sequences, FiniteSets, TLC

VARIABLES
    chunk_size,      \* DocumentChunker.chunk_size
    chunk_overlap,   \* DocumentChunker.chunk_overlap
    document,        \* the MarkdownDocument passed to chunk_document
    cpc,             \* position of chunk_document
    segments,        \* chunk_document: chunks returned by _split_by_headers
    seg_i,           \* chunk_document: 1-based position of the first loop
    final_chunks,    \* chunk_document: final_chunks
    text,            \* _split_by_size: its argument
    start,           \* _split_by_size: start
    chunks,          \* _split_by_size: chunks
    visited,         \* history: the values start had at the loop head of this call
    chunk_objects,   \* chunk_document: the returned list
    collection,      \* the entries of the collection the client holds under collection_name
    ipc,             \* position of index_documents
    documents,       \* index_documents: its argument
    doc_idx,         \* index_documents: doc_idx (0 before the first document)
    current_batch_chunks,   \* index_documents: the working buffer
    total_chunks,    \* index_documents: total_chunks
    batch,           \* index_documents: batch of the last flush
    ids,             \* index_documents: ids of the last flush
    embed_requests,  \* the input of every embedding request of this invocation
    outcome,         \* how the last invocation ended: its return value or its error
    store_before,    \* history: the store when the last call was made
    segmented,       \* history: chunks the segmenter returned to this invocation
    env,             \* the class attributes of Config
    handle,          \* VectorIndexer.collection: the collection object it refers to
    fail_at,         \* the embedding request of this invocation that fails (0: none)
    last_call,       \* history: the last call on the indexer or the retriever
    query_results,   \* search: the answer of collection.query
    indexing_status, \* api.py: the module-level dictionary indexing_status
    tasks,           \* api.py: the background tasks index_repository has added
    last_request     \* history: the last HTTP request and its response

chunkerVars == <<chunk_size, chunk_overlap, document, cpc, segments, seg_i,
                 final_chunks, text, start, chunks, visited, chunk_objects>>

indexVars == <<collection, ipc, documents, doc_idx, current_batch_chunks,
               total_chunks, batch, ids, embed_requests, outcome, store_before,
               segmented, env, handle, fail_at, last_call, query_results>>

apiVars == <<indexing_status, tasks, last_request>>

vars == <<chunkerVars, indexVars, apiVars>>

(***************************************************************************)
(* Bounds of the model.                                                    *)
(***************************************************************************)
MaxLen == 5          \* every text of at most MaxLen characters is an input
MaxChunkSize == 3    \* every pair 0 <= overlap < chunk_size <= MaxChunkSize

(***************************************************************************)
(* Characters.                                                             *)
(***************************************************************************)
NL == "\n"
Whitespace == {" ", NL}
Alphabet == {"#", " ", NL, "a"}

Min(S) == CHOOSE x \in S : \A y \in S : x <= y
Max(S) == CHOOSE x \in S : \A y \in S : x >= y

(***************************************************************************)
(* Python sequence primitives.                                             *)
(***************************************************************************)
\* A slice bound as Python normalises it for a sequence of length n.
PyIndex(i, n) == IF i < 0 THEN (IF i + n < 0 THEN 0 ELSE i + n)
                 ELSE (IF i > n THEN n ELSE i)

\* s[a:b]
Slice(s, a, b) ==
    LET lo == PyIndex(a, Len(s))
        hi == PyIndex(b, Len(s))
    IN  IF lo >= hi THEN <<>> ELSE SubSeq(s, lo + 1, hi)

\* s.rfind(sub, a, b): the highest 0-based index in s[a:b] where sub starts, or -1.
Rfind(s, sub, a, b) ==
    LET lo == PyIndex(a, Len(s))
        hi == PyIndex(b, Len(s))
        hits == {i \in lo..(hi - Len(sub)) : SubSeq(s, i + 1, i + Len(sub)) = sub}
    IN  IF hits = {} THEN -1 ELSE Max(hits)

\* s.strip()
Strip(s) ==
    LET solid == {i \in 1..Len(s) : s[i] \notin Whitespace}
    IN  IF solid = {} THEN <<>> ELSE SubSeq(s, Min(solid), Max(solid))

\* s.split("\n"): at least one line, none of which holds a line break.
RECURSIVE SplitLines(_)
SplitLines(s) ==
    LET breaks == {i \in 1..Len(s) : s[i] = NL}
    IN  IF breaks = {} THEN <<s>>
        ELSE LET b == Min(breaks)
             IN  <<SubSeq(s, 1, b - 1)>> \o SplitLines(SubSeq(s, b + 1, Len(s)))

\* "\n".join(lines)
RECURSIVE JoinLines(_)
JoinLines(lines) ==
    IF lines = <<>> THEN <<>>
    ELSE IF Len(lines) = 1 THEN lines[1]
    ELSE lines[1] \o <<NL>> \o JoinLines(Tail(lines))

\* Longest run of '#' at the start of the line.
LeadingHashes(line) ==
    Max({k \in 0..Len(line) : \A j \in 1..k : line[j] = "#"})

\* The heading test without its whitespace: re.match(r"^#{1,6}.+$", line).
IsHeaderNoWhitespace(line) == Len(line) >= 2 /\ line[1] = "#"

\* re.match(r"^#{1,6}\s+.+$", line) on a line without line breaks: one to six
\* '#', then at least one whitespace character, then at least one more character.
IsHeader(line) ==
    LET k == LeadingHashes(line)
    IN  /\ k >= 1
        /\ k <= 6
        /\ Len(line) >= k + 2
        /\ line[k + 1] \in Whitespace

(***************************************************************************)
(* DocumentChunker._split_by_headers                                       *)
(***************************************************************************)
\* The loop of lines 81-87 over lines[from..], with the chunks closed so far
\* and the lines of current_chunk; then lines 90-91.
RECURSIVE HeaderLoop(_, _, _, _)
HeaderLoop(lines, from, closed, current) ==
    IF from > Len(lines)
    THEN (IF current # <<>> THEN Append(closed, JoinLines(current)) ELSE closed)
    ELSE IF IsHeader(lines[from]) /\ current # <<>>
         THEN HeaderLoop(lines, from + 1, Append(closed, JoinLines(current)),
                         <<lines[from]>>)
         ELSE HeaderLoop(lines, from + 1, closed, Append(current, lines[from]))

SplitByHeaders(t) ==
    LET found == HeaderLoop(SplitLines(t), 1, <<>>, <<>>)
    IN  IF found # <<>> THEN found ELSE <<t>>

(***************************************************************************)
(* DocumentChunker._split_by_size, one iteration of its loop               *)
(***************************************************************************)
\* The window one character too long.
WindowEndOneMore(s, size) == s + size + 1

\* line 108
WindowEnd(s, size) == s + size

\* lines 108-120: where the window that starts at s is cut.
CutPoint(t, s, size) ==
    LET end == WindowEnd(s, size)
    IN  IF end < Len(t)
        THEN LET paragraph_break == Rfind(t, <<NL, NL>>, s, end)
             IN  IF paragraph_break > s THEN paragraph_break
                 ELSE LET newline == Rfind(t, <<NL>>, s, end)
                      IN  IF newline > s THEN newline ELSE end
        ELSE end

\* line 122
WindowChunk(t, s, end) == Strip(Slice(t, s, end))

\* line 123
NextStart(end, overlap) == end - overlap

(***************************************************************************)
(* Inputs                                                                  *)
(***************************************************************************)
\* Every text over Alphabet of at most MaxLen characters.
Texts == UNION {[1..n -> Alphabet] : n \in 0..MaxLen}

\* Every configuration with 0 <= overlap < chunk_size <= MaxChunkSize.
Configs == {c \in (1..MaxChunkSize) \X (0..MaxChunkSize) : c[2] < c[1]}

\* The defaults of Config.CHUNK_SIZE and Config.CHUNK_OVERLAP.
CHUNK_SIZE == 1000
CHUNK_OVERLAP == 200

\* "# A\nfoo bar\n# B\nbaz"
ExampleDoc == <<"#", " ", "A", NL, "f", "o", "o", " ", "b", "a", "r", NL,
                "#", " ", "B", NL, "b", "a", "z">>

\* Longer inputs, each with its chunk size and overlap.
LongCases ==
    { <<ExampleDoc, CHUNK_SIZE, CHUNK_OVERLAP>>,
      <<<<"#", " ", "a", NL, "#", " ", "a">>, 3, 1>>,
      <<<<"a", NL, "#", "#", "#", "#", "#", "#", " ", "a">>, CHUNK_SIZE, CHUNK_OVERLAP>>,
      <<<<"a", NL, "#", "#", "#", "#", "#", "#", "#", " ", "a">>, CHUNK_SIZE, CHUNK_OVERLAP>>,
      <<<<"a", NL, "#", "a", "a", "a", "a">>, 6, 2>>,
      <<<<"a", "#", NL, NL, "a", "#", "a", "#", "a">>, 4, 1>>,
      <<<<"a", "a", "a", "a", "a", "a", "a", "a", "a">>, 4, 2>> }

\* A MarkdownDocument (crawler.py): the fields chunk_document reads.
Doc(repo, path, url, content) ==
    [repo_name |-> repo, path |-> path, url |-> url, content |-> content]

NoDoc == Doc("", "", "", <<>>)

(***************************************************************************)
(* DocumentChunker.chunk_document                                          *)
(***************************************************************************)
\* The chunk object with a 1-based index.
ChunkObjectOneBased(doc, final, k) ==
    [text |-> final[k],
     metadata |-> [repo_name |-> doc.repo_name,
                   file_path |-> doc.path,
                   url |-> doc.url,
                   chunk_index |-> k,
                   total_chunks |-> Len(final)]]

\* lines 49-61: the chunk object of final_chunks[k].
ChunkObject(doc, final, k) ==
    [text |-> final[k],
     metadata |-> [repo_name |-> doc.repo_name,
                   file_path |-> doc.path,
                   url |-> doc.url,
                   chunk_index |-> k - 1,
                   total_chunks |-> Len(final)]]

\* line 40: the segment goes through _split_by_size.
TooLarge(seg, size) == Len(seg) > size

\* line 35: the header pass.
HeaderPass ==
    /\ UNCHANGED apiVars
    /\ cpc = "called"
    /\ segments' = SplitByHeaders(document.content)
    /\ seg_i' = 1
    /\ final_chunks' = <<>>
    /\ cpc' = "segments"
    /\ UNCHANGED indexVars
    /\ UNCHANGED <<chunk_size, chunk_overlap, document, text, start, chunks,
                   visited, chunk_objects>>

\* lines 44-45: a segment that fits is kept as it is.
KeepSegment ==
    /\ UNCHANGED apiVars
    /\ cpc = "segments"
    /\ seg_i <= Len(segments)
    /\ ~TooLarge(segments[seg_i], chunk_size)
    /\ final_chunks' = Append(final_chunks, segments[seg_i])
    /\ seg_i' = seg_i + 1
    /\ UNCHANGED indexVars
    /\ UNCHANGED <<chunk_size, chunk_overlap, document, cpc, segments, text,
                   start, chunks, visited, chunk_objects>>

\* lines 40-42 and 104-105: a segment that is too large enters _split_by_size.
EnterSplit ==
    /\ UNCHANGED apiVars
    /\ cpc = "segments"
    /\ seg_i <= Len(segments)
    /\ TooLarge(segments[seg_i], chunk_size)
    /\ text' = segments[seg_i]
    /\ start' = 0
    /\ chunks' = <<>>
    /\ visited' = {}
    /\ cpc' = "split"
    /\ UNCHANGED indexVars
    /\ UNCHANGED <<chunk_size, chunk_overlap, document, segments, seg_i,
                   final_chunks, chunk_objects>>

\* lines 107-123: one iteration of the sliding-window loop.
SplitStep ==
    /\ UNCHANGED apiVars
    /\ cpc = "split"
    /\ start < Len(text)
    /\ start \notin visited
    /\ LET end == CutPoint(text, start, chunk_size)
       IN  /\ chunks' = Append(chunks, WindowChunk(text, start, end))
           /\ start' = NextStart(end, chunk_overlap)
    /\ visited' = visited \cup {start}
    /\ UNCHANGED indexVars
    /\ UNCHANGED <<chunk_size, chunk_overlap, document, cpc, segments, seg_i,
                   final_chunks, text, chunk_objects>>

\* line 107: the loop is back at a window start it has already had.  An iteration
\* is a function of text and start alone, so the loop repeats from here for ever
\* and _split_by_size never returns.
SplitRepeats ==
    /\ UNCHANGED apiVars
    /\ cpc = "split"
    /\ start < Len(text)
    /\ start \in visited
    /\ cpc' = "looping"
    /\ UNCHANGED indexVars
    /\ UNCHANGED <<chunk_size, chunk_overlap, document, segments, seg_i,
                   final_chunks, text, start, chunks, visited, chunk_objects>>

\* lines 107, 125 and 43: the loop ends and its chunks extend final_chunks.
LeaveSplit ==
    /\ UNCHANGED apiVars
    /\ cpc = "split"
    /\ start >= Len(text)
    /\ final_chunks' = final_chunks \o chunks
    /\ seg_i' = seg_i + 1
    /\ cpc' = "segments"
    /\ UNCHANGED indexVars
    /\ UNCHANGED <<chunk_size, chunk_overlap, document, segments, text, start,
                   chunks, visited, chunk_objects>>

\* lines 47-63: the chunk objects are built and returned.
ReturnChunks ==
    /\ UNCHANGED apiVars
    /\ cpc = "segments"
    /\ seg_i > Len(segments)
    /\ chunk_objects' = [k \in 1..Len(final_chunks) |->
                            ChunkObject(document, final_chunks, k)]
    /\ cpc' = "returned"
    /\ UNCHANGED indexVars
    /\ UNCHANGED <<chunk_size, chunk_overlap, document, segments, seg_i,
                   final_chunks, text, start, chunks, visited>>

\* line 122 in the loop that repeats: chunks grows by one element at every
\* iteration, and where the memory of the process is limited the append raises
\* MemoryError, which leaves _split_by_size and chunk_document (line 42).  The
\* number of iterations before it depends on the memory the process may use;
\* where only the machine limits it the system kills the process in the loop,
\* which then takes no further step.
SplitOutOfMemory ==
    /\ UNCHANGED apiVars
    /\ cpc = "looping"
    /\ cpc' = "memory_error"
    /\ UNCHANGED indexVars
    /\ UNCHANGED <<chunk_size, chunk_overlap, document, segments, seg_i,
                   final_chunks, text, start, chunks, visited, chunk_objects>>

ChunkDocument ==
    \/ HeaderPass
    \/ KeepSegment
    \/ EnterSplit
    \/ SplitStep
    \/ SplitRepeats
    \/ SplitOutOfMemory
    \/ LeaveSplit
    \/ ReturnChunks

(***************************************************************************)
(* Configuration (src/deepwiki/config.py) and construction                 *)
(***************************************************************************)
\* An optional integer argument: None is the empty sequence, n is <<n>>.
None == <<>>
Some(n) == <<n>>

\* Python's `x or default` for an optional integer: None and 0 are false.
Or(x, default) == IF x = None \/ x = Some(0) THEN default ELSE x[1]

\* config.py line 33, the default of TOP_K.
TOP_K == 5

\* The class attributes of Config that VectorIndexer and DocumentChunker read:
\* the provider, whether each key is set to a non-empty string, and the chunking
\* numbers.
Environment(provider, openai_key, anthropic_key, size, overlap) ==
    [LLM_PROVIDER |-> provider, OPENAI_API_KEY |-> openai_key,
     ANTHROPIC_API_KEY |-> anthropic_key, CHUNK_SIZE |-> size,
     CHUNK_OVERLAP |-> overlap]

\* config.py lines 38-41: the error validate raises, "ok" when it raises none.
OpenAIKeyRequired == "OPENAI_API_KEY is required when LLM_PROVIDER is 'openai'"
AnthropicKeyRequired == "ANTHROPIC_API_KEY is required when LLM_PROVIDER is 'anthropic'"

Validate(cfg) ==
    IF cfg.LLM_PROVIDER = "openai" /\ ~cfg.OPENAI_API_KEY THEN OpenAIKeyRequired
    ELSE IF cfg.LLM_PROVIDER = "anthropic" /\ ~cfg.ANTHROPIC_API_KEY
         THEN AnthropicKeyRequired
    ELSE "ok"

\* indexer.py lines 22-23: the fields DocumentChunker.__init__ sets.
DocumentChunkerInit(size_arg, overlap_arg, cfg) ==
    [chunk_size |-> Or(size_arg, cfg.CHUNK_SIZE),
     chunk_overlap |-> Or(overlap_arg, cfg.CHUNK_OVERLAP)]

(***************************************************************************)
(* VectorIndexer: the store and the capabilities it calls                  *)
(***************************************************************************)
\* line 170 (and lines 228, 237)
batch_size == 25

\* The exception of a name that no scope binds.
NameError == "NameError: name 'chunk' is not defined"

\* The exception of a failed embedding request.
EmbeddingError == "embedding request failed"

\* The exception of an allocation the process has no memory for.
MemoryError == "MemoryError"

\* The vector the embedding capability answers for one text.
Embedding(t) == <<"vector", t>>

\* lines 217-248: the inputs of the requests _generate_embeddings issues for texts,
\* in order: one request for at most 25 texts, else one per sub-batch of 25.
\* Sub-batches that each start at the last text of the one before.
RECURSIVE SubBatchesOverlapping(_)
SubBatchesOverlapping(texts) ==
    IF Len(texts) <= batch_size THEN <<texts>>
    ELSE <<Slice(texts, 0, batch_size)>> \o
         SubBatchesOverlapping(Slice(texts, batch_size - 1, Len(texts)))

RECURSIVE SubBatches(_)
SubBatches(texts) ==
    IF Len(texts) <= batch_size THEN <<texts>>
    ELSE <<Slice(texts, 0, batch_size)>> \o
         SubBatches(Slice(texts, batch_size, Len(texts)))

\* The answer of the embedding capability to one request: one vector per text of
\* the input, in input order.
Answer(request) == [i \in 1..Len(request) |-> Embedding(request[i])]

\* list.extend over a list of lists.
RECURSIVE Flatten(_)
Flatten(lists) ==
    IF lists = <<>> THEN <<>> ELSE lists[1] \o Flatten(Tail(lists))

\* lines 233 and 245-248: the vectors of the answers to all requests, in the order
\* of the requests.
GenerateEmbeddings(texts) ==
    Flatten([r \in 1..Len(SubBatches(texts)) |-> Answer(SubBatches(texts)[r])])

\* line 193: the id text f"{repo_name}::{file_path}::{n}", kept as its three parts.
MakeId(repo, path, n) == <<repo, path, n>>

\* The names index_documents binds (its parameters and the targets of its
\* assignments and of its for statement), and the names the module binds.  The
\* comprehensions of lines 191-192 bind chunk in scopes of their own.
IndexDocumentsLocals ==
    {"self", "documents", "total_chunks", "batch_size", "current_batch_chunks",
     "doc_idx", "doc", "chunks", "batch", "texts", "metadatas", "ids",
     "batch_embeddings"}
ModuleGlobals ==
    {"re", "List", "Dict", "Any", "Optional", "chromadb", "Settings", "openai",
     "config", "MarkdownDocument", "DocumentChunker", "VectorIndexer"}

\* lines 193-194: the comprehension binds i alone and reads chunk from the scopes
\* around it; where one of them binds chunk to a chunk object c, every id is built
\* from c, and where none does the lookup raises.
BuildIds(b, total) ==
    IF "chunk" \in IndexDocumentsLocals \cup ModuleGlobals
    THEN LET c == b[Len(b)]
         IN  [i \in 1..Len(b) |->
                 MakeId(c.metadata.repo_name, c.metadata.file_path, total + i - 1)]
    ELSE NameError

\* lines 200-205: collection.add, one entry per position of the parallel lists.
Entries(new_ids, embeddings, texts, metadatas) ==
    {[id |-> new_ids[i], embedding |-> embeddings[i], document |-> texts[i],
      metadata |-> metadatas[i]] : i \in 1..Len(new_ids)}

\* collection.add keeps an entry whose id the collection already holds.
CollectionAdd(store, entries) ==
    store \cup {e \in entries : \A old \in store : old.id # e.id}

\* The repository names of the model in the order Python's string comparison
\* gives them ("r1" is a prefix of "r10", and "0" sorts before "2").
StringOrder == <<"r1", "r10", "r2">>

Repositories == {StringOrder[i] : i \in 1..Len(StringOrder)}

StringLess(a, b) ==
    \E i, j \in 1..Len(StringOrder) :
        StringOrder[i] = a /\ StringOrder[j] = b /\ i < j

\* The names of a set from the last to the first of the string order.
Descending(names) ==
    CHOOSE s \in [1..Cardinality(names) -> names] :
        \A i, j \in 1..Cardinality(names) : i < j => StringLess(s[j], s[i])

\* sorted(list(names)) of a set of strings.
Sorted(names) ==
    CHOOSE s \in [1..Cardinality(names) -> names] :
        \A i, j \in 1..Cardinality(names) : i < j => StringLess(s[i], s[j])

\* lines 274-288: the names of all metadatas go through a set and are sorted.
ListRepositories(store) == Sorted({e.metadata.repo_name : e \in store})

\* lines 290-303
GetStats(store) ==
    [total_chunks |-> Cardinality(store),
     total_repositories |-> Len(ListRepositories(store)),
     repositories |-> ListRepositories(store)]

\* lines 258-263: collection.get(where={"repo_name": repo}) answers the ids of the
\* entries whose metadata names the repository; collection.delete(ids=...) removes
\* the entries of these ids and is called when at least one id was found.
GetWhere(store, repo) == {e.id : e \in {x \in store : x.metadata.repo_name = repo}}

DeleteIds(store, found) == {e \in store : e.id \notin found}

\* Variants of WithoutRepository that differ from lines 258-263.
WithoutRepositoryAll(store, repo) ==
    IF GetWhere(store, repo) # {} THEN {} ELSE store

WithoutRepositoryOne(store, repo) ==
    LET found == GetWhere(store, repo)
    IN  IF found # {} THEN DeleteIds(store, {CHOOSE x \in found : TRUE}) ELSE store

WithoutRepositoryVectorsOnly(store, repo) ==
    {IF e.metadata.repo_name = repo THEN [e EXCEPT !.embedding = None] ELSE e :
        e \in store}

WithoutRepositoryUnguarded(store, repo) ==
    LET found == GetWhere(store, repo)
    IN  IF found # {} THEN DeleteIds(store, found) ELSE {}

WithoutRepository(store, repo) ==
    LET found == GetWhere(store, repo)
    IN  IF found # {} THEN DeleteIds(store, found) ELSE store

\* The collection object self.collection refers to: "none" before construction,
\* "live" for the collection the client holds under collection_name, "deleted"
\* for a collection delete_collection has removed.
\* lines 267-271: delete_collection removes the collection of the handle, and
\* get_or_create_collection answers the collection then created under the name,
\* which line 268 assigns to self.collection.
HandleNotReassigned(old) == IF old = "live" THEN "deleted" ELSE old

HandleAfterClearAll(old) == "live"

(***************************************************************************)
(* DocumentRetriever.search (src/deepwiki/retriever.py)                    *)
(***************************************************************************)
\* Distances and scores are counted in tenths: 10 is 1.0.
One == 10

\* The number of positions at which two texts differ.
Differences(a, b) ==
    Cardinality({i \in 1..Max({Len(a), Len(b)}) :
                    i > Len(a) \/ i > Len(b) \/ a[i] # b[i]})

\* The distance the store measures between two vectors.
Distance(v, w) == 4 * Differences(v[2], w[2])

\* retriever.py lines 66-69: what collection.query may answer for one query
\* vector and n_results = n: the n nearest entries (all entries when the store
\* holds fewer), nearest first, as parallel lists inside one outer list; entries
\* of equal distance come in any order.
QueryAnswers(store, v, n) ==
    LET m == Min({n, Cardinality(store)})
        nearest == {s \in [1..m -> store] :
                       /\ \A i, j \in 1..m : i # j => s[i] # s[j]
                       /\ \A i, j \in 1..m : i < j =>
                              Distance(v, s[i].embedding) <= Distance(v, s[j].embedding)
                       /\ \A e \in store :
                              (\A i \in 1..m : s[i] # e) =>
                                  \A i \in 1..m :
                                      Distance(v, s[i].embedding) <= Distance(v, e.embedding)}
    IN  {[ids |-> << [i \in 1..m |-> s[i].id] >>,
          documents |-> << [i \in 1..m |-> s[i].document] >>,
          metadatas |-> << [i \in 1..m |-> s[i].metadata] >>,
          distances |-> << [i \in 1..m |-> Distance(v, s[i].embedding)] >>] :
            s \in nearest}

NoResults == [ids |-> <<>>, documents |-> <<>>, metadatas |-> <<>>, distances |-> <<>>]

\* A score that is the distance itself.
ScoreIsDistance(d) == d

\* retriever.py line 79: 1.0 - distance.
Score(d) == One - d

\* retriever.py lines 72-81 with results whose score is not positive left out.
SearchResultsPositiveOnly(results) ==
    IF results.documents # <<>> /\ results.documents[1] # <<>>
    THEN SelectSeq([i \in 1..Len(results.documents[1]) |->
                       [text |-> results.documents[1][i],
                        metadata |-> results.metadatas[1][i],
                        score |-> Score(results.distances[1][i])]],
                   LAMBDA r : r.score > 0)
    ELSE <<>>

\* retriever.py lines 72-81: one SearchResult per document of the first inner list.
SearchResults(results) ==
    IF results.documents # <<>> /\ results.documents[1] # <<>>
    THEN [i \in 1..Len(results.documents[1]) |->
             [text |-> results.documents[1][i],
              metadata |-> results.metadatas[1][i],
              score |-> Score(results.distances[1][i])]]
    ELSE <<>>

(***************************************************************************)
(* VectorIndexer.__init__                                                  *)
(***************************************************************************)
NoOutcome == [kind |-> "none"]
ReturnedValue(n) == [kind |-> "returned", value |-> n]
Raised(e) == [kind |-> "raised", error |-> e]

\* The last call made on the indexer or the retriever: the operation, its
\* argument, and whether the call before was the same call.
NoCall == [op |-> "none", arg |-> None, again |-> FALSE]
Call(op, arg, again) == [op |-> op, arg |-> arg, again |-> again]

\* An index_documents call; recovering: the call before was clear_repository of
\* the repository of every document of this call.
IndexCall(docs, recovering) ==
    [op |-> "index_documents", arg |-> docs, again |-> FALSE,
     recovering |-> recovering]

(***************************************************************************)
(* The state of the HTTP API (src/deepwiki/api.py)                         *)
(***************************************************************************)
MaxTasks == 2        \* index_repository adds at most MaxTasks background tasks

\* api.py lines 16-21: indexing_status when the module is loaded.  A text is kept
\* as the list of its parts, '' as the empty list; current_repo is None or a url.
IdleStatus ==
    [in_progress |-> FALSE, current_repo |-> None, status |-> "idle", message |-> <<>>]

\* An exception: its class, the parts of str(e) and the length of str(e).
Exc(type, parts, length) == [type |-> type, parts |-> parts, length |-> length]

NoExc == Exc("", <<>>, 0)

\* What a task has left of indexing_status after its last statement.
Final(status) == [in_progress |-> status.in_progress, status |-> status.status]

\* A background task: the statement of index_in_background it is at (none: not
\* added; queued: added, line 76 is its next statement), its repo_url, its locals
\* documents, e and chunk_count, and what it left of indexing_status at its end.
NoTask ==
    [pc |-> "none", repo_url |-> "", documents |-> <<>>, e |-> NoExc,
     chunk_count |-> 0, final |-> Final(IdleStatus)]

NoRequest == [op |-> "none"]

\* No request has been made on the API.
ApiIdle ==
    /\ indexing_status = IdleStatus
    /\ tasks = [i \in 1..MaxTasks |-> NoTask]
    /\ last_request = NoRequest

\* No invocation is under way and none has been made.
IndexerIdle ==
    /\ ApiIdle
    /\ documents = <<>>
    /\ doc_idx = 0
    /\ current_batch_chunks = <<>>
    /\ total_chunks = 0
    /\ batch = <<>>
    /\ ids = <<>>
    /\ embed_requests = <<>>
    /\ outcome = NoOutcome
    /\ segmented = 0
    /\ fail_at = 0
    /\ last_call = NoCall
    /\ query_results = NoResults

\* The locals of chunk_document and _split_by_size before a call.
ChunkerLocalsFresh ==
    /\ document' = NoDoc
    /\ cpc' = "idle"
    /\ segments' = <<>>
    /\ seg_i' = 1
    /\ final_chunks' = <<>>
    /\ text' = <<>>
    /\ start' = 0
    /\ chunks' = <<>>
    /\ visited' = {}
    /\ chunk_objects' = <<>>

\* The locals of index_documents are gone once another call is made.
IndexLocalsGone ==
    /\ documents' = <<>>
    /\ doc_idx' = 0
    /\ current_batch_chunks' = <<>>
    /\ total_chunks' = 0
    /\ batch' = <<>>
    /\ ids' = <<>>
    /\ segmented' = 0
    /\ fail_at' = 0

\* lines 131-156: validate, the chunker with the configured numbers, the
\* collection of the persistent client.
Construct ==
    /\ UNCHANGED apiVars
    /\ ipc = "new"
    /\ IF Validate(env) # "ok"
       THEN /\ ipc' = "config_error"
            /\ outcome' = Raised(Validate(env))
            /\ UNCHANGED <<chunk_size, chunk_overlap, handle>>
       ELSE /\ chunk_size' = DocumentChunkerInit(None, None, env).chunk_size
            /\ chunk_overlap' = DocumentChunkerInit(None, None, env).chunk_overlap
            /\ handle' = "live"
            /\ ipc' = "idle"
            /\ UNCHANGED outcome
    /\ UNCHANGED <<env, collection, documents, doc_idx, current_batch_chunks,
                   total_chunks, batch, ids, embed_requests, store_before,
                   segmented, fail_at, last_call, query_results>>
    /\ UNCHANGED <<document, cpc, segments, seg_i, final_chunks, text, start,
                   chunks, visited, chunk_objects>>

(***************************************************************************)
(* VectorIndexer.index_documents                                           *)
(***************************************************************************)
\* The caller is between two calls on the indexer.
BetweenCalls == ipc \in {"idle", "returned", "raised"}

\* A flush condition that waits for the last document.
FlushDueLastOnly(buffer, idx, docs) == idx = Len(docs) /\ buffer # <<>>

\* line 185: the condition of the flush loop.
FlushDue(buffer, idx, docs) ==
    Len(buffer) >= batch_size \/ (idx = Len(docs) /\ buffer # <<>>)

\* lines 167-171: the call.  failing is the number of the embedding request of
\* this invocation that the embedding capability will fail (0: none fails).
IndexDocuments(docs, failing) ==
    /\ UNCHANGED apiVars
    /\ BetweenCalls
    /\ documents' = docs
    /\ doc_idx' = 0
    /\ total_chunks' = 0
    /\ current_batch_chunks' = <<>>
    /\ batch' = <<>>
    /\ ids' = <<>>
    /\ embed_requests' = <<>>
    /\ outcome' = NoOutcome
    /\ store_before' = collection
    /\ segmented' = 0
    /\ fail_at' = failing
    /\ last_call' = IndexCall(docs, last_call.op = "clear_repository" /\
                                     \A i \in 1..Len(docs) :
                                         docs[i].repo_name = last_call.arg)
    /\ query_results' = NoResults
    /\ ipc' = "next_doc"
    /\ ChunkerLocalsFresh
    /\ UNCHANGED <<collection, env, handle, chunk_size, chunk_overlap>>

\* lines 174-178: the next document goes to the chunker.
IndexNextDocument ==
    /\ UNCHANGED apiVars
    /\ ipc = "next_doc"
    /\ doc_idx < Len(documents)
    /\ doc_idx' = doc_idx + 1
    /\ document' = documents[doc_idx + 1]
    /\ cpc' = "called"
    /\ ipc' = "chunking"
    /\ UNCHANGED <<collection, documents, current_batch_chunks, total_chunks,
                   batch, ids, embed_requests, outcome, store_before, segmented,
                   env, handle, fail_at, last_call, query_results>>
    /\ UNCHANGED <<chunk_size, chunk_overlap, segments, seg_i, final_chunks,
                   text, start, chunks, visited, chunk_objects>>

\* lines 178-182: the chunks of the document extend the working buffer.
IndexCollect ==
    /\ UNCHANGED apiVars
    /\ ipc = "chunking"
    /\ cpc = "returned"
    /\ current_batch_chunks' = current_batch_chunks \o chunk_objects
    /\ segmented' = segmented + Len(chunk_objects)
    /\ cpc' = "idle"
    /\ ipc' = "flush"
    /\ UNCHANGED <<collection, documents, doc_idx, total_chunks, batch, ids,
                   embed_requests, outcome, store_before,
                   env, handle, fail_at, last_call, query_results>>
    /\ UNCHANGED <<chunk_size, chunk_overlap, document, segments, seg_i,
                   final_chunks, text, start, chunks, visited, chunk_objects>>

\* line 178: the MemoryError of chunk_document leaves index_documents uncaught;
\* nothing of the document has reached the working buffer or the store.
IndexChunkerRaised ==
    /\ UNCHANGED apiVars
    /\ ipc = "chunking"
    /\ cpc = "memory_error"
    /\ ipc' = "raised"
    /\ outcome' = Raised(MemoryError)
    /\ UNCHANGED <<collection, documents, doc_idx, current_batch_chunks,
                   total_chunks, batch, ids, embed_requests, store_before, segmented,
                   env, handle, fail_at, last_call, query_results>>
    /\ UNCHANGED chunkerVars

\* line 185, condition false: on to the next document.
FlushNotDue ==
    /\ UNCHANGED apiVars
    /\ ipc = "flush"
    /\ ~FlushDue(current_batch_chunks, doc_idx, documents)
    /\ ipc' = "next_doc"
    /\ UNCHANGED <<collection, documents, doc_idx, current_batch_chunks,
                   total_chunks, batch, ids, embed_requests, outcome,
                   store_before, segmented,
                   env, handle, fail_at, last_call, query_results>>
    /\ UNCHANGED chunkerVars

\* lines 185-212: one flush.  The batch leaves the buffer, its texts, metadatas and
\* ids are prepared, the embeddings are requested and the entries are added; an
\* exception of any of these steps leaves index_documents.  The requests of
\* _generate_embeddings are issued in order up to the one that fails.
Flush ==
    /\ UNCHANGED apiVars
    /\ ipc = "flush"
    /\ FlushDue(current_batch_chunks, doc_idx, documents)
    /\ LET b == Slice(current_batch_chunks, 0, batch_size)
           rest == Slice(current_batch_chunks, batch_size, Len(current_batch_chunks))
           texts == [i \in 1..Len(b) |-> b[i].text]
           metadatas == [i \in 1..Len(b) |-> b[i].metadata]
           new_ids == BuildIds(b, total_chunks)
           requests == SubBatches(texts)
           made == Len(embed_requests)
       IN  /\ batch' = b
           /\ current_batch_chunks' = rest
           /\ ids' = new_ids
           /\ IF new_ids = NameError
              THEN /\ ipc' = "raised"
                   /\ outcome' = Raised(NameError)
                   /\ UNCHANGED <<collection, total_chunks, embed_requests>>
              ELSE IF fail_at \in (made + 1)..(made + Len(requests))
                   THEN /\ embed_requests' =
                               embed_requests \o SubSeq(requests, 1, fail_at - made)
                        /\ ipc' = "raised"
                        /\ outcome' = Raised(EmbeddingError)
                        /\ UNCHANGED <<collection, total_chunks>>
                   ELSE /\ embed_requests' = embed_requests \o requests
                        /\ collection' = CollectionAdd(collection,
                               Entries(new_ids, GenerateEmbeddings(texts), texts, metadatas))
                        /\ total_chunks' = total_chunks + Len(b)
                        /\ ipc' = IF rest = <<>> THEN "next_doc" ELSE "flush"
                        /\ UNCHANGED outcome
    /\ UNCHANGED <<documents, doc_idx, store_before, segmented,
                   env, handle, fail_at, last_call, query_results>>
    /\ UNCHANGED chunkerVars

\* lines 174 and 214-215: no document is left, total_chunks is returned.
IndexReturn ==
    /\ UNCHANGED apiVars
    /\ ipc = "next_doc"
    /\ doc_idx = Len(documents)
    /\ ipc' = "returned"
    /\ outcome' = ReturnedValue(total_chunks)
    /\ UNCHANGED <<collection, documents, doc_idx, current_batch_chunks,
                   total_chunks, batch, ids, embed_requests, store_before, segmented,
                   env, handle, fail_at, last_call, query_results>>
    /\ UNCHANGED chunkerVars

(***************************************************************************)
(* VectorIndexer.clear_repository, clear_all and get_stats                 *)
(***************************************************************************)
\* lines 250-263: the entries of the repository are looked up and deleted.
ClearRepository(repo) ==
    /\ UNCHANGED apiVars
    /\ BetweenCalls
    /\ collection' = WithoutRepository(collection, repo)
    /\ store_before' = collection
    /\ last_call' = Call("clear_repository", repo,
                         last_call.op = "clear_repository" /\ last_call.arg = repo)
    /\ ipc' = "idle"
    /\ outcome' = ReturnedValue(None)
    /\ embed_requests' = <<>>
    /\ query_results' = NoResults
    /\ IndexLocalsGone
    /\ ChunkerLocalsFresh
    /\ UNCHANGED <<env, handle, chunk_size, chunk_overlap>>

\* lines 265-272: the collection is deleted and created again.
ClearAll ==
    /\ UNCHANGED apiVars
    /\ BetweenCalls
    /\ collection' = {}
    /\ handle' = HandleAfterClearAll(handle)
    /\ store_before' = collection
    /\ last_call' = Call("clear_all", None, FALSE)
    /\ ipc' = "idle"
    /\ outcome' = ReturnedValue(None)
    /\ embed_requests' = <<>>
    /\ query_results' = NoResults
    /\ IndexLocalsGone
    /\ ChunkerLocalsFresh
    /\ UNCHANGED <<env, chunk_size, chunk_overlap>>

\* lines 290-303: get_stats, which calls list_repositories (lines 274-288).
GetStatsCall ==
    /\ UNCHANGED apiVars
    /\ BetweenCalls
    /\ outcome' = ReturnedValue(GetStats(collection))
    /\ store_before' = collection
    /\ last_call' = Call("get_stats", None, FALSE)
    /\ ipc' = "idle"
    /\ embed_requests' = <<>>
    /\ query_results' = NoResults
    /\ IndexLocalsGone
    /\ ChunkerLocalsFresh
    /\ UNCHANGED <<collection, env, handle, chunk_size, chunk_overlap>>

\* lines 217-248: _generate_embeddings called with a list of texts; failing is the
\* number of the request that the embedding capability fails (0: none).
GenerateEmbeddingsCall(texts, failing) ==
    /\ UNCHANGED apiVars
    /\ BetweenCalls
    /\ LET requests == SubBatches(texts)
       IN  IF failing \in 1..Len(requests)
           THEN /\ embed_requests' = SubSeq(requests, 1, failing)
                /\ outcome' = Raised(EmbeddingError)
           ELSE /\ embed_requests' = requests
                /\ outcome' = ReturnedValue(GenerateEmbeddings(texts))
    /\ store_before' = collection
    /\ last_call' = Call("_generate_embeddings", texts, FALSE)
    /\ ipc' = "idle"
    /\ query_results' = NoResults
    /\ IndexLocalsGone
    /\ ChunkerLocalsFresh
    /\ UNCHANGED <<collection, env, handle, chunk_size, chunk_overlap>>

(***************************************************************************)
(* DocumentRetriever.search                                                *)
(***************************************************************************)
\* retriever.py lines 50-83: top_k or config.TOP_K, the embedding of the query
\* (lines 85-98, one request, whose failure leaves search), the query of the
\* collection of the indexer, the conversion of its answer.
Search(query, top_k) ==
    /\ UNCHANGED apiVars
    /\ BetweenCalls
    /\ \E answered \in BOOLEAN :
          IF answered
          THEN \E results \in QueryAnswers(collection, Embedding(query),
                                           Or(top_k, TOP_K)) :
                  /\ query_results' = results
                  /\ outcome' = ReturnedValue(SearchResults(results))
          ELSE /\ query_results' = NoResults
               /\ outcome' = Raised(EmbeddingError)
    /\ embed_requests' = << <<query>> >>
    /\ store_before' = collection
    /\ last_call' = Call("search", [query |-> query, top_k |-> top_k], FALSE)
    /\ ipc' = "idle"
    /\ IndexLocalsGone
    /\ ChunkerLocalsFresh
    /\ UNCHANGED <<collection, env, handle, chunk_size, chunk_overlap>>

(***************************************************************************)
(* The segmenter on its own: one chunk_document call per behaviour.        *)
(***************************************************************************)
Init ==
    /\ \E c \in {<<t, cfg[1], cfg[2]>> : t \in Texts, cfg \in Configs} \cup LongCases :
          /\ document = Doc("repo", "docs/a.md", "https://host/repo/docs/a.md", c[1])
          /\ chunk_size = c[2]
          /\ chunk_overlap = c[3]
          /\ env = Environment("openai", TRUE, FALSE, c[2], c[3])
    /\ cpc = "called"
    /\ segments = <<>>
    /\ seg_i = 1
    /\ final_chunks = <<>>
    /\ text = <<>>
    /\ start = 0
    /\ chunks = <<>>
    /\ visited = {}
    /\ chunk_objects = <<>>
    /\ ipc = "idle"
    /\ handle = "none"
    /\ IndexerIdle
    /\ collection = {}
    /\ store_before = {}

Next == ChunkDocument

Spec == Init /\ [][Next]_vars

(***************************************************************************)
(* The segmenter constructed with arguments: DocumentChunker(chunk_size,   *)
(* chunk_overlap) and then one chunk_document call.                        *)
(***************************************************************************)
\* lines 15-23: DocumentChunker.__init__ with its two arguments.
ConstructChunker(size_arg, overlap_arg) ==
    /\ UNCHANGED apiVars
    /\ cpc = "new"
    /\ chunk_size' = DocumentChunkerInit(size_arg, overlap_arg, env).chunk_size
    /\ chunk_overlap' = DocumentChunkerInit(size_arg, overlap_arg, env).chunk_overlap
    /\ last_call' = Call("DocumentChunker", <<size_arg, overlap_arg>>, FALSE)
    /\ cpc' = "called"
    /\ UNCHANGED <<document, segments, seg_i, final_chunks, text, start, chunks,
                   visited, chunk_objects>>
    /\ UNCHANGED <<collection, ipc, documents, doc_idx, current_batch_chunks,
                   total_chunks, batch, ids, embed_requests, outcome, store_before,
                   segmented, env, handle, fail_at, query_results>>

\* The arguments: omitted, or a number.
SizeArgs == {None} \cup {Some(n) : n \in 1..MaxChunkSize}
OverlapArgs == {None} \cup {Some(n) : n \in 0..(MaxChunkSize - 1)}

\* The configured defaults: those of config.py, and small ones.
ChunkerEnvironments ==
    {Environment("openai", TRUE, FALSE, CHUNK_SIZE, CHUNK_OVERLAP),
     Environment("openai", TRUE, FALSE, 3, 1)}

\* The documents the constructed segmenter is given.
ChunkerDocs ==
    {Doc("repo", "docs/a.md", "https://host/repo/docs/a.md", t) :
        t \in {<<>>, <<"#", " ", "a", NL, "#", " ", "a">>, <<"a", NL, "#", "a", "a", "a", "a">>,
               <<"a", "a", "a", "a">>}}

InitChunker ==
    /\ env \in ChunkerEnvironments
    /\ document \in ChunkerDocs
    /\ chunk_size = 0
    /\ chunk_overlap = 0
    /\ cpc = "new"
    /\ segments = <<>>
    /\ seg_i = 1
    /\ final_chunks = <<>>
    /\ text = <<>>
    /\ start = 0
    /\ chunks = <<>>
    /\ visited = {}
    /\ chunk_objects = <<>>
    /\ ipc = "idle"
    /\ handle = "none"
    /\ IndexerIdle
    /\ collection = {}
    /\ store_before = {}

NextChunker ==
    \/ \E size_arg \in SizeArgs, overlap_arg \in OverlapArgs :
           ConstructChunker(size_arg, overlap_arg)
    \/ ChunkDocument

SpecChunker == InitChunker /\ [][NextChunker]_vars

(***************************************************************************)
(* The index manager: the construction of one VectorIndexer and then any   *)
(* sequence of index_documents, clear_repository, clear_all, get_stats and *)
(* search calls of one caller.                                             *)
(***************************************************************************)
MaxDocs == 2         \* index_documents gets at most MaxDocs documents
LongDocLen == 52     \* length of the longest document given to index_documents
MaxFailAt == 2       \* the embedding capability fails one of the first MaxFailAt requests, or none

\* The documents index_documents is given.
IndexDocs ==
    { Doc("r1", "a.md", "https://host/r1/a.md", <<"#", " ", "a", NL, "#", " ", "a">>),
      Doc("r1", "long.md", "https://host/r1/long.md", [i \in 1..LongDocLen |-> "a"]),
      Doc("r2", "b.md", "https://host/r2/b.md", <<"a", NL, "a", "a">>),
      Doc("r2", "e.md", "https://host/r2/e.md", <<>>) }

DocLists == UNION {[1..n -> IndexDocs] : n \in 0..MaxDocs}

\* CHUNK_SIZE and CHUNK_OVERLAP as the environment sets them for DocumentChunker().
IndexConfigs == {<<2, 1>>, <<3, 0>>, <<2, 2>>}

\* The configurations the process is started with: the openai provider with its
\* key and each pair of chunking numbers, and the two providers without their key.
Environments ==
    {Environment("openai", TRUE, FALSE, cfg[1], cfg[2]) : cfg \in IndexConfigs}
    \cup {Environment("openai", FALSE, TRUE, 2, 1),
          Environment("anthropic", TRUE, FALSE, 2, 1)}

\* Entries the persistent collection may hold when the indexer is constructed.
PersistedEntry(repo, path, n, total, t) ==
    [id |-> MakeId(repo, path, n), embedding |-> Embedding(t), document |-> t,
     metadata |-> [repo_name |-> repo, file_path |-> path,
                   url |-> "https://host/old", chunk_index |-> n, total_chunks |-> total]]

PersistedEntries ==
    { PersistedEntry("r1", "a.md", 0, 2, <<"o", "l", "d">>),
      PersistedEntry("r1", "a.md", 1, 2, <<"o", "d", "d">>),
      PersistedEntry("r2", "b.md", 0, 1, <<"n", "e", "w">>),
      PersistedEntry("r10", "c.md", 0, 1, <<"o">>) }

PersistedStores == SUBSET PersistedEntries

MaxTexts == 51       \* _generate_embeddings gets at most MaxTexts texts

\* The text lists _generate_embeddings is given: no text, one text, a full
\* request, one text more, and MaxTexts texts; the texts of a list differ.
TextList(n) == [i \in 1..n |-> [j \in 1..i |-> "a"]]
TextLists == {TextList(n) : n \in {0, 1, batch_size, batch_size + 1, MaxTexts}}

\* The queries and the top_k arguments search is given.
Queries == {<<"o", "l", "d">>, <<"x">>}
TopKs == {None, Some(1), Some(2)}

InitIndex ==
    /\ env \in Environments
    /\ chunk_size = 0
    /\ chunk_overlap = 0
    /\ handle = "none"
    /\ ipc = "new"
    /\ document = NoDoc
    /\ cpc = "idle"
    /\ segments = <<>>
    /\ seg_i = 1
    /\ final_chunks = <<>>
    /\ text = <<>>
    /\ start = 0
    /\ chunks = <<>>
    /\ visited = {}
    /\ chunk_objects = <<>>
    /\ IndexerIdle
    /\ collection \in PersistedStores
    /\ store_before = collection

NextIndex ==
    \/ Construct
    \/ \E docs \in DocLists, failing \in 0..MaxFailAt : IndexDocuments(docs, failing)
    \/ IndexNextDocument
    \/ ChunkDocument
    \/ IndexCollect
    \/ IndexChunkerRaised
    \/ FlushNotDue
    \/ Flush
    \/ IndexReturn
    \/ \E repo \in Repositories : ClearRepository(repo)
    \/ ClearAll
    \/ GetStatsCall
    \/ \E texts \in TextLists, failing \in 0..MaxFailAt :
           GenerateEmbeddingsCall(texts, failing)
    \/ \E query \in Queries, top_k \in TopKs : Search(query, top_k)

SpecIndex == InitIndex /\ [][NextIndex]_vars

(***************************************************************************)
(* The HTTP API (src/deepwiki/api.py).  The handlers of the requests run   *)
(* one at a time on the event loop; a background task is a plain function, *)
(* which the framework runs on a worker thread after the response of the   *)
(* request that added it, so the steps of the tasks interleave with each   *)
(* other and with the handlers.                                            *)
(***************************************************************************)
\* _split_by_size as a function: whether the loop of lines 107-123 comes back to a
\* window start it has had, from start s with the starts seen so far.
RECURSIVE SplitBySizeLoops(_, _, _, _, _)
SplitBySizeLoops(t, s, seen, size, overlap) ==
    IF s >= Len(t) THEN FALSE
    ELSE IF s \in seen THEN TRUE
    ELSE SplitBySizeLoops(t, NextStart(CutPoint(t, s, size), overlap),
                          seen \cup {s}, size, overlap)

\* lines 104-125: the chunks of a loop that ends, from start s on.
RECURSIVE SplitBySize(_, _, _, _)
SplitBySize(t, s, size, overlap) ==
    IF s >= Len(t) THEN <<>>
    ELSE LET end == CutPoint(t, s, size)
         IN  <<WindowChunk(t, s, end)>> \o
             SplitBySize(t, NextStart(end, overlap), size, overlap)

\* chunk_document never returns: one of its segments is too large and its loop
\* repeats.
ChunkDocumentLoops(doc, size, overlap) ==
    LET segs == SplitByHeaders(doc.content)
    IN  \E i \in 1..Len(segs) :
            TooLarge(segs[i], size) /\ SplitBySizeLoops(segs[i], 0, {}, size, overlap)

\* lines 35-45: final_chunks of a document on which chunk_document returns.
FinalChunks(doc, size, overlap) ==
    LET segs == SplitByHeaders(doc.content)
    IN  Flatten([i \in 1..Len(segs) |->
                    IF TooLarge(segs[i], size)
                    THEN SplitBySize(segs[i], 0, size, overlap)
                    ELSE <<segs[i]>>])

\* lines 25-63: the list chunk_document returns.
ChunkDocumentResult(doc, size, overlap) ==
    LET final == FinalChunks(doc, size, overlap)
    IN  [k \in 1..Len(final) |-> ChunkObject(doc, final, k)]

\* indexer.py lines 174-182 over all documents: current_batch_chunks when no flush
\* has come before the last document.
AllChunks(docs, size, overlap) ==
    Flatten([d \in 1..Len(docs) |-> ChunkDocumentResult(docs[d], size, overlap)])

\* The exceptions of the model.  str(MemoryError()) is ''.
NameErrorExc == Exc("NameError", <<"name 'chunk' is not defined">>, 27)
MemoryErrorExc == Exc("MemoryError", <<>>, 0)
EmbeddingExc == Exc("APIError", <<EmbeddingError>>, 24)
ValueErrorExc(required) ==
    Exc("ValueError", <<required>>, IF required = OpenAIKeyRequired THEN 56 ELSE 62)

\* crawler.py lines 81-84: the exception crawl raises when the repository cannot be
\* reached, with the text and the length of the error of the GitHub client.
CrawlExc(detail, length) ==
    Exc("Exception", <<"Failed to access repository: ", detail>>, 29 + length)

\* The errors of the GitHub client: a short one and one of 300 characters.
CrawlFailures == {CrawlExc("404 Not Found", 13), CrawlExc("long error page", 300)}

\* line 120: str(e)[:200].
Message200(e) ==
    IF e.length <= 200 THEN e.parts ELSE <<"the first 200 characters of ">> \o e.parts

NoMarkdown == "No Markdown files found"

\* The repositories requests name, and the documents a crawl can return for one:
\* none, a short file, or a short file and a file on which _split_by_size repeats
\* under the configured chunking numbers.
RepoUrls == {"r1"}
ShortFile(repo) == Doc(repo, "a.md", "u", <<"a">>)
HeadingFile(repo) == Doc(repo, "b.md", "u", <<"#", NL, "#">>)
CrawlResults(repo) ==
    {<<>>, <<ShortFile(repo)>>, <<ShortFile(repo), HeadingFile(repo)>>}

\* The pcs of all tasks, the tasks that have been added and have not ended, and
\* the tasks that are in a flush of index_documents.
TaskPcs == [i \in 1..MaxTasks |-> tasks[i].pc]
Unfinished(pcs) == {i \in 1..MaxTasks : pcs[i] \notin {"none", "done"}}
Flushing(pcs) == {i \in 1..MaxTasks : pcs[i] = "flushing"}

\* A request, the status code of its response, and the tasks that were unfinished
\* and in a flush when its handler ran.
Response(op, arg, code, pcs) ==
    [op |-> op, arg |-> arg, code |-> code, unfinished |-> Unfinished(pcs),
     flushing |-> Flushing(pcs)]

\* What the API leaves alone of the segmenter and of the library objects.
libraryVars == <<ipc, documents, doc_idx, current_batch_chunks, total_chunks, batch,
                 ids, embed_requests, outcome, store_before, segmented, env, handle,
                 fail_at, last_call, query_results>>

\* The server process runs: the system has not killed it (see TaskKilled).
Serving == \A i \in 1..MaxTasks : tasks[i].pc # "killed"

\* line 127: the request is turned away.
Rejected == indexing_status.in_progress

\* POST /api/index, lines 124-140: 409 while in_progress is set; otherwise the task
\* is added, and it starts after the response.
PostIndex(repo_url) ==
    LET free == {i \in 1..MaxTasks : tasks[i].pc = "none"}
    IN  /\ Serving
        /\ Rejected \/ free # {}
        /\ IF Rejected
           THEN /\ last_request' = Response("POST /api/index", repo_url, 409, TaskPcs)
                /\ UNCHANGED tasks
           ELSE /\ last_request' = Response("POST /api/index", repo_url, 200, TaskPcs)
                /\ tasks' = [tasks EXCEPT ![Min(free)] =
                                [NoTask EXCEPT !.pc = "queued", !.repo_url = repo_url]]
        /\ UNCHANGED indexing_status
        /\ UNCHANGED <<collection, libraryVars>>
        /\ UNCHANGED chunkerVars

\* One assignment to a key of indexing_status, and the statement the task is at
\* after it.
Assign(key, value, next) == [key |-> key, value |-> value, next |-> next]

\* The statements of index_in_background that assign to indexing_status, by the
\* line the task is at: lines 76-79, 94-96, 100-101, 111-113 and 119-121.
Assignment(t) ==
    CASE t.pc = "queued" -> Assign("in_progress", TRUE, "line 77")
      [] t.pc = "line 77" -> Assign("current_repo", Some(t.repo_url), "line 78")
      [] t.pc = "line 78" -> Assign("status", "crawling", "line 79")
      [] t.pc = "line 79" ->
             Assign("message", <<"Crawling repository: ", t.repo_url>>, "crawl")
      [] t.pc = "line 94" -> Assign("status", "error", "line 95")
      [] t.pc = "line 95" -> Assign("message", <<NoMarkdown>>, "line 96")
      [] t.pc = "line 96" -> Assign("in_progress", FALSE, "done")
      [] t.pc = "line 100" -> Assign("status", "indexing", "line 101")
      [] t.pc = "line 101" ->
             Assign("message", <<"Indexing ", Len(t.documents),
                                 " files (generating embeddings)...">>, "index")
      [] t.pc = "line 111" -> Assign("status", "completed", "line 112")
      [] t.pc = "line 112" ->
             Assign("message", <<"Successfully indexed ", Len(t.documents),
                                 " files (", t.chunk_count, " chunks)">>, "line 113")
      [] t.pc = "line 113" -> Assign("in_progress", FALSE, "done")
      [] t.pc = "line 119" -> Assign("status", "error", "line 120")
      [] t.pc = "line 120" -> Assign("message", Message200(t.e), "line 121")
      [] t.pc = "line 121" -> Assign("in_progress", FALSE, "done")

AssignmentPcs ==
    {"queued", "line 77", "line 78", "line 79", "line 94", "line 95", "line 96",
     "line 100", "line 101", "line 111", "line 112", "line 113", "line 119",
     "line 120", "line 121"}

\* The task i makes its next assignment to indexing_status; after the last one of
\* its path the function returns and its locals are gone.
TaskWrite(i) ==
    /\ tasks[i].pc \in AssignmentPcs
    /\ LET w == Assignment(tasks[i])
           after == [indexing_status EXCEPT ![w.key] = w.value]
       IN  /\ indexing_status' = after
           /\ tasks' = [tasks EXCEPT ![i] =
                  IF w.next = "done"
                  THEN [NoTask EXCEPT !.pc = "done", !.repo_url = tasks[i].repo_url,
                                      !.final = Final(after)]
                  ELSE [tasks[i] EXCEPT !.pc = w.next]]
    /\ UNCHANGED last_request
    /\ UNCHANGED <<collection, libraryVars>>
    /\ UNCHANGED chunkerVars

\* lines 81-93 and 115: the crawl raises, finds nothing, or returns documents.
TaskCrawl(i) ==
    /\ tasks[i].pc = "crawl"
    /\ \E failure \in {NoExc} \cup CrawlFailures,
          found \in CrawlResults(tasks[i].repo_url) :
           tasks' = [tasks EXCEPT ![i] =
               IF failure # NoExc THEN [@ EXCEPT !.pc = "line 119", !.e = failure]
               ELSE IF found = <<>> THEN [@ EXCEPT !.pc = "line 94"]
               ELSE [@ EXCEPT !.pc = "line 100", !.documents = found]]
    /\ UNCHANGED <<indexing_status, last_request>>
    /\ UNCHANGED <<collection, libraryVars>>
    /\ UNCHANGED chunkerVars

\* line 106 and indexer.py lines 137-140 and 167-188: the indexer is constructed
\* and index_documents chunks the documents up to its first flush; on a document
\* on which _split_by_size repeats the task stays in that loop.
TaskIndex(i) ==
    /\ tasks[i].pc = "index"
    /\ LET chunker == DocumentChunkerInit(None, None, env)
       IN  tasks' = [tasks EXCEPT ![i] =
               IF Validate(env) # "ok"
               THEN [@ EXCEPT !.pc = "line 119", !.e = ValueErrorExc(Validate(env))]
               ELSE IF \E d \in 1..Len(tasks[i].documents) :
                           ChunkDocumentLoops(tasks[i].documents[d],
                               chunker.chunk_size, chunker.chunk_overlap)
               THEN [@ EXCEPT !.pc = "looping"]
               ELSE [@ EXCEPT !.pc = "flushing"]]
    /\ UNCHANGED <<indexing_status, last_request>>
    /\ UNCHANGED <<collection, libraryVars>>
    /\ UNCHANGED chunkerVars

\* indexer.py line 122 in the loop that repeats: chunks grows by one element at
\* every iteration, so the memory runs out.  Where the process has a limit of its
\* own the append raises MemoryError, which line 115 catches.
TaskOutOfMemory(i) ==
    /\ tasks[i].pc = "looping"
    /\ tasks' = [tasks EXCEPT ![i].pc = "line 119", ![i].e = MemoryErrorExc]
    /\ UNCHANGED <<indexing_status, last_request>>
    /\ UNCHANGED <<collection, libraryVars>>
    /\ UNCHANGED chunkerVars

\* indexer.py line 122 in the loop that repeats, where nothing limits the process
\* but the memory of the machine: the system kills the process while the loop is
\* appending.  No except clause runs, line 121 is never reached, and every task
\* of the process stops where it is; no request is handled afterwards.
TaskKilled(i) ==
    /\ tasks[i].pc = "looping"
    /\ tasks' = [j \in 1..MaxTasks |->
                    IF tasks[j].pc \in {"none", "done"} THEN tasks[j]
                    ELSE [tasks[j] EXCEPT !.pc = "killed"]]
    /\ UNCHANGED <<indexing_status, last_request>>
    /\ UNCHANGED <<collection, libraryVars>>
    /\ UNCHANGED chunkerVars

\* indexer.py lines 187-215 and api.py lines 108-109 and 115: the flush of the task
\* (its documents give fewer than batch_size chunks, so it is the only one).
TaskFlush(i) ==
    /\ tasks[i].pc = "flushing"
    /\ LET chunker == DocumentChunkerInit(None, None, env)
           b == Slice(AllChunks(tasks[i].documents, chunker.chunk_size,
                                chunker.chunk_overlap), 0, batch_size)
           texts == [k \in 1..Len(b) |-> b[k].text]
           metadatas == [k \in 1..Len(b) |-> b[k].metadata]
           new_ids == BuildIds(b, 0)
       IN  IF new_ids = NameError
           THEN /\ tasks' = [tasks EXCEPT ![i].pc = "line 119", ![i].e = NameErrorExc]
                /\ UNCHANGED collection
           ELSE \E answered \in BOOLEAN :
                    IF ~answered
                    THEN /\ tasks' = [tasks EXCEPT ![i].pc = "line 119",
                                                   ![i].e = EmbeddingExc]
                         /\ UNCHANGED collection
                    ELSE /\ collection' = CollectionAdd(collection,
                                Entries(new_ids, GenerateEmbeddings(texts), texts,
                                        metadatas))
                         /\ tasks' = [tasks EXCEPT ![i].pc = "line 111",
                                                   ![i].chunk_count = Len(b)]
    /\ UNCHANGED <<indexing_status, last_request>>
    /\ UNCHANGED libraryVars
    /\ UNCHANGED chunkerVars

\* The steps the worker thread of the task i takes.
TaskStep(i) ==
    \/ TaskWrite(i) \/ TaskCrawl(i) \/ TaskIndex(i) \/ TaskFlush(i)
    \/ TaskOutOfMemory(i) \/ TaskKilled(i)

\* DELETE /api/clear, lines 176-188: clear_repository for a non-empty name,
\* clear_all otherwise; 500 when the indexer cannot be constructed.
ClearIndex(repo_name) ==
    /\ Serving
    /\ IF Validate(env) # "ok"
       THEN /\ last_request' = Response("DELETE /api/clear", repo_name, 500, TaskPcs)
            /\ UNCHANGED collection
       ELSE /\ last_request' = Response("DELETE /api/clear", repo_name, 200, TaskPcs)
            /\ collection' = IF repo_name # "" THEN WithoutRepository(collection, repo_name)
                             ELSE {}
    /\ UNCHANGED <<indexing_status, tasks>>
    /\ UNCHANGED libraryVars
    /\ UNCHANGED chunkerVars

\* The configuration of the server: small chunking numbers, with and without the
\* key the indexer requires.
ApiEnvironments ==
    {Environment("openai", TRUE, FALSE, 2, 1),
     Environment("openai", FALSE, FALSE, 2, 1)}

InitApi ==
    /\ env \in ApiEnvironments
    /\ chunk_size = 0
    /\ chunk_overlap = 0
    /\ handle = "none"
    /\ ipc = "new"
    /\ document = NoDoc
    /\ cpc = "idle"
    /\ segments = <<>>
    /\ seg_i = 1
    /\ final_chunks = <<>>
    /\ text = <<>>
    /\ start = 0
    /\ chunks = <<>>
    /\ visited = {}
    /\ chunk_objects = <<>>
    /\ IndexerIdle
    /\ collection = PersistedEntries
    /\ store_before = collection

NextApi ==
    \/ \E repo_url \in RepoUrls : PostIndex(repo_url)
    \/ \E i \in 1..MaxTasks : TaskWrite(i)
    \/ \E i \in 1..MaxTasks : TaskCrawl(i)
    \/ \E i \in 1..MaxTasks : TaskIndex(i)
    \/ \E i \in 1..MaxTasks : TaskOutOfMemory(i)
    \/ \E i \in 1..MaxTasks : TaskKilled(i)
    \/ \E i \in 1..MaxTasks : TaskFlush(i)
    \/ \E repo_name \in {"", "r1"} : ClearIndex(repo_name)

SpecApi == InitApi /\ [][NextApi]_vars

\* The behaviours of the API in which the worker threads run: a task whose thread
\* can take a step takes it, and a loop that allocates at every iteration runs
\* out of memory, in one of the two ways of TaskOutOfMemory and TaskKilled.
\* Requests come or do not come.
SpecApiFair ==
    InitApi /\ [][NextApi]_vars /\ \A i \in 1..MaxTasks : WF_vars(TaskStep(i))

(***************************************************************************)
(* Vocabulary of the claims                                                *)
(***************************************************************************)
\* chunk_document has returned.
Returned == cpc = "returned"

\* The chunk texts of the returned list, in order.
ReturnedTexts == [k \in 1..Len(chunk_objects) |-> chunk_objects[k].text]

\* The configuration the segmenter assumes.
ValidConfig == 0 <= chunk_overlap /\ chunk_overlap < chunk_size

\* An ATX heading line: one to six '#', then whitespace, then at least one
\* more character.
AtxHeading(line) ==
    \E k \in 1..6 :
        /\ Len(line) >= k + 2
        /\ \A j \in 1..k : line[j] = "#"
        /\ line[k + 1] \in Whitespace

FirstLine(t) == SplitLines(t)[1]

\* The text without its whitespace characters.
RECURSIVE Solid(_)
Solid(t) ==
    IF t = <<>> THEN <<>>
    ELSE (IF t[1] \in Whitespace THEN <<>> ELSE <<t[1]>>) \o Solid(Tail(t))

\* The last n and the first n characters of a text that has them.
LastChars(t, n) == SubSeq(t, Len(t) - n + 1, Len(t))
FirstChars(t, n) == SubSeq(t, 1, n)

(***************************************************************************)
(* C1: for every document and every configuration with                     *)
(* 0 <= overlap < chunk_size, chunk_document terminates: the sliding-window *)
(* loop of _split_by_size always reaches the end of the text, so it is     *)
(* never back at a window start it has had before.                         *)
(***************************************************************************)
C1_SplitBySizeTerminates == ValidConfig => cpc # "looping"

(***************************************************************************)
(* C2: every chunk chunk_document returns is at most chunk_size long,      *)
(* unless the chunk is a whole structural segment that holds no line break *)
(* at which it could be divided.                                           *)
(***************************************************************************)
Undividable(c) ==
    /\ \E i \in 1..Len(segments) : segments[i] = c
    /\ \A j \in 1..Len(c) : c[j] # NL

C2_ChunkSizeBound ==
    (Returned /\ ValidConfig) =>
        \A k \in 1..Len(chunk_objects) :
            \/ Len(chunk_objects[k].text) <= chunk_size
            \/ Undividable(chunk_objects[k].text)

\* A returned list holding a chunk of the size pass that is exactly chunk_size long.
C2_Witness ==
    /\ Returned
    /\ \E i \in 1..Len(segments) : TooLarge(segments[i], chunk_size)
    /\ \E k \in 1..Len(chunk_objects) : Len(chunk_objects[k].text) = chunk_size
    /\ Len(chunk_objects) >= 2

(***************************************************************************)
(* C3: when every header-delimited segment is at most chunk_size long,     *)
(* chunk_document returns one chunk per structural segment in document     *)
(* order: the chunks joined by line breaks are the document, a new chunk   *)
(* starts at every heading line after the first line, every chunk but the  *)
(* first starts with a heading line, a document without heading lines is   *)
(* one chunk equal to the whole text, and "# A\nfoo bar\n# B\nbaz" with    *)
(* chunk size 1000 gives exactly "# A\nfoo bar" and "# B\nbaz".            *)
(***************************************************************************)
C3_OneChunkPerSegment ==
    (Returned /\ \A i \in 1..Len(segments) : Len(segments[i]) <= chunk_size) =>
        LET out == ReturnedTexts
            lines == SplitLines(document.content)
            headings == {j \in 2..Len(lines) : AtxHeading(lines[j])}
        IN  /\ JoinLines(out) = document.content
            /\ Len(out) = 1 + Cardinality(headings)
            /\ \A k \in 2..Len(out) : AtxHeading(FirstLine(out[k]))
            /\ (headings = {} => out = <<document.content>>)
            /\ (document.content = ExampleDoc =>
                    out = << <<"#", " ", "A", NL, "f", "o", "o", " ", "b", "a", "r">>,
                             <<"#", " ", "B", NL, "b", "a", "z">> >>)

\* The scenario of the specification has been chunked.
C3_Witness ==
    /\ Returned
    /\ document.content = ExampleDoc
    /\ chunk_size = 1000
    /\ Len(chunk_objects) = 2

(***************************************************************************)
(* C4: the returned chunks carry the indices 0, 1, ..., n-1 in order, each *)
(* carries total = n, the number of chunks returned, and each carries the  *)
(* path, URL and collection name of the document.                          *)
(***************************************************************************)
C4_PositionalMetadata ==
    Returned =>
        \A k \in 1..Len(chunk_objects) :
            LET m == chunk_objects[k].metadata
            IN  /\ m.chunk_index = k - 1
                /\ m.total_chunks = Len(chunk_objects)
                /\ m.file_path = document.path
                /\ m.url = document.url
                /\ m.repo_name = document.repo_name

\* A returned list of at least three chunks, some of them from the size pass.
C4_Witness ==
    /\ Returned
    /\ Len(chunk_objects) >= 3
    /\ Len(segments) >= 2
    /\ \E i \in 1..Len(segments) : TooLarge(segments[i], chunk_size)

(***************************************************************************)
(* C5: chunk_document of a document whose content is the empty string      *)
(* returns an empty chunk sequence.                                        *)
(***************************************************************************)
C5_EmptyDocumentNoChunks ==
    (Returned /\ document.content = <<>>) => chunk_objects = <<>>

(***************************************************************************)
(* C6: every chunk text chunk_document returns is non-empty and has no     *)
(* leading and no trailing whitespace.                                     *)
(***************************************************************************)
Trimmed(c) == c # <<>> /\ c[1] \notin Whitespace /\ c[Len(c)] \notin Whitespace

C6_ChunksTrimmedNonEmpty ==
    Returned => \A k \in 1..Len(chunk_objects) : Trimmed(chunk_objects[k].text)

(***************************************************************************)
(* C7: two adjacent chunks of the sliding-window split of one structural   *)
(* segment share `overlap` characters: the last `overlap` characters of    *)
(* the earlier one are the first `overlap` characters of the later one.    *)
(* Read in the claim's favour: where one of the two chunks is shorter than *)
(* `overlap`, only the characters both have are compared.  chunks holds    *)
(* the chunks of the last segment that went through the size pass.         *)
(***************************************************************************)
Shared(a, b, n) ==
    LET m == Min({n, Len(a), Len(b)})
    IN  LastChars(a, m) = FirstChars(b, m)

C7_AdjacentChunksOverlap ==
    (Returned /\ ValidConfig) =>
        \A i \in 1..(Len(chunks) - 1) : Shared(chunks[i], chunks[i + 1], chunk_overlap)

(***************************************************************************)
(* C8: the returned chunk texts, concatenated in order after removing from *)
(* each the prefix it shares with the tail of its predecessor, are the     *)
(* document up to whitespace: no other character is lost or invented.      *)
(* Read in the claim's favour: any prefix a chunk shares with the tail of  *)
(* its predecessor may be the one removed, and all whitespace is ignored.  *)
(***************************************************************************)
\* The lengths n for which the first n characters of b are the last n of a.
SharedLengths(a, b) ==
    {n \in 0..Min({Len(a), Len(b)}) : LastChars(a, n) = FirstChars(b, n)}

\* Every text the first k chunks can be put together to.
RECURSIVE Reconstructions(_, _)
Reconstructions(out, k) ==
    IF k = 0 THEN {<<>>}
    ELSE IF k = 1 THEN {out[1]}
    ELSE {r \o SubSeq(out[k], n + 1, Len(out[k])) :
             r \in Reconstructions(out, k - 1),
             n \in SharedLengths(out[k - 1], out[k])}

C8_Reconstruction ==
    (Returned /\ ValidConfig) =>
        \E r \in Reconstructions(ReturnedTexts, Len(ReturnedTexts)) :
            Solid(r) = Solid(document.content)

(***************************************************************************)
(* C9: an index_documents invocation that meets no failure of the          *)
(* embedding capability is successful: it returns the number of chunks the *)
(* segmenter produced for its documents, nothing is left in the working    *)
(* buffer, on an initially empty collection get_stats().total_chunks is    *)
(* the returned value, and with an empty document list it returns 0,       *)
(* issues no embedding request and leaves the store unchanged.             *)
(***************************************************************************)
C9_IndexRoundTrip ==
    (ipc \in {"returned", "raised"} /\ outcome # Raised(EmbeddingError)) =>
        /\ outcome.kind = "returned"
        /\ outcome.value = segmented
        /\ current_batch_chunks = <<>>
        /\ (store_before = {} => GetStats(collection).total_chunks = outcome.value)
        /\ (documents = <<>> =>
                outcome.value = 0 /\ embed_requests = <<>> /\ collection = store_before)

(***************************************************************************)
(* C10: in every flush the chunks of the batch get consecutive sequence    *)
(* numbers that continue the count of the chunks written before in the     *)
(* invocation, and the id of each is built from the collection and path of *)
(* that chunk and its sequence number.                                     *)
(***************************************************************************)
C10_IdsFromOwnChunk ==
    batch # <<>> =>
        LET written_before == IF ipc = "raised" THEN total_chunks
                              ELSE total_chunks - Len(batch)
        IN  /\ ids # NameError
            /\ ids = [i \in 1..Len(batch) |->
                         MakeId(batch[i].metadata.repo_name,
                                batch[i].metadata.file_path,
                                written_before + i - 1)]

(***************************************************************************)
(* Vocabulary of the claims about the store                                *)
(***************************************************************************)
\* The entries of a store that belong to a repository.
EntriesOf(store, repo) == {e \in store : e.metadata.repo_name = repo}

\* The last call is the named operation.
LastCall(op) == last_call.op = op

\* The texts of the embedding requests 1..n of this invocation.
RequestedTexts(n) ==
    UNION {{embed_requests[r][i] : i \in 1..Len(embed_requests[r])} : r \in 1..n}

(***************************************************************************)
(* C11: when the embedding capability fails the k-th embedding request of  *)
(* an index_documents invocation (the request of its k-th flush), the      *)
(* invocation ends with that error and returns no chunk count, the entries *)
(* of the flushes 1..k-1 are in the store, no entry of flush k or of a     *)
(* later flush is written, and no embedding request follows the failed one. *)
(* The premise is a request of index_documents that has failed; line 193   *)
(* raises before line 197 in every flush, so no state of SpecIndex has one. *)
(***************************************************************************)
C11_EmbeddingFailurePropagates ==
    (LastCall("index_documents") /\ ipc = "raised" /\ embed_requests # <<>>) =>
        /\ outcome = Raised(EmbeddingError)
        /\ Len(embed_requests) = fail_at
        /\ store_before \subseteq collection
        /\ \A t \in RequestedTexts(fail_at - 1) :
               \E e \in collection : e.document = t /\ e.embedding = Embedding(t)
        /\ Cardinality(collection) <= Cardinality(store_before) + total_chunks

C13_ClearRepositoryFrame ==
    LastCall("clear_repository") =>
        /\ EntriesOf(collection, last_call.arg) = {}
        /\ collection \subseteq store_before
        /\ \A repo \in Repositories \ {last_call.arg} :
               /\ EntriesOf(collection, repo) = EntriesOf(store_before, repo)
               /\ Cardinality(EntriesOf(collection, repo)) =
                      Cardinality(EntriesOf(store_before, repo))

\* clear_repository has removed two entries and left the entries of two other
\* collections.
C13_Witness ==
    /\ LastCall("clear_repository")
    /\ Cardinality(EntriesOf(store_before, last_call.arg)) = 2
    /\ Cardinality(collection) = 2
    /\ Cardinality({e.metadata.repo_name : e \in collection}) = 2

(***************************************************************************)
(* C14: clear_repository is idempotent: a second call with the same name   *)
(* right after the first raises no error and leaves the store and what     *)
(* get_stats() reports as they were after the first call.                  *)
(***************************************************************************)
C14_ClearRepositoryIdempotent ==
    (LastCall("clear_repository") /\ last_call.again) =>
        /\ outcome = ReturnedValue(None)
        /\ collection = store_before
        /\ GetStats(collection) = GetStats(store_before)

\* The second of two clear_repository("r1") calls on a store that still holds
\* the entries of the two other collections.
C14_Witness ==
    /\ LastCall("clear_repository")
    /\ last_call.again
    /\ last_call.arg = "r1"
    /\ collection = WithoutRepository(PersistedEntries, "r1")
    /\ collection # PersistedEntries

(***************************************************************************)
(* C15: conditions of nothing found are no errors: clear_repository on a   *)
(* name that has no entries returns normally and leaves the store as it    *)
(* was, and search on an empty store returns an empty list and raises      *)
(* nothing when the query got its embedding.                               *)
(***************************************************************************)
C15_NotFoundIsNoError ==
    /\ (LastCall("clear_repository") /\ EntriesOf(store_before, last_call.arg) = {}) =>
           /\ outcome = ReturnedValue(None)
           /\ collection = store_before
    /\ (LastCall("search") /\ store_before = {} /\ outcome # Raised(EmbeddingError)) =>
           /\ outcome = ReturnedValue(<<>>)
           /\ collection = {}

\* clear_repository was called with a name of no entry on a store that holds
\* entries of other collections.
C15_Witness ==
    /\ LastCall("clear_repository")
    /\ EntriesOf(store_before, last_call.arg) = {}
    /\ Cardinality(store_before) >= 2
    /\ ~last_call.again

\* search was called on an empty store and has returned.
C15_SearchOnEmptyStore ==
    LastCall("search") /\ store_before = {} /\ outcome.kind = "returned"

(***************************************************************************)
(* C16: after clear_all the store is empty, get_stats() reports no chunk   *)
(* and no repository, and the collection handle of the indexer refers to   *)
(* the collection created again under the same name, the one a following   *)
(* index_documents or search works on.                                     *)
(***************************************************************************)
C16_ClearAllEmpties ==
    LastCall("clear_all") =>
        /\ collection = {}
        /\ GetStats(collection) =
               [total_chunks |-> 0, total_repositories |-> 0, repositories |-> <<>>]
        /\ handle = "live"
        /\ outcome = ReturnedValue(None)

\* clear_all was called on a store with entries of three collections.
C16_Witness ==
    /\ LastCall("clear_all")
    /\ store_before = PersistedEntries
    /\ collection = {}

(***************************************************************************)
(* C17: list_repositories returns the distinct collection names of the     *)
(* entries of the store, each once, in ascending order, and get_stats      *)
(* reports the length of that list as total_repositories and the number of *)
(* entries as total_chunks.                                                *)
(***************************************************************************)
C17_ListRepositoriesSorted ==
    LastCall("get_stats") =>
        LET stats == outcome.value
            repos == stats.repositories
        IN  /\ {repos[i] : i \in 1..Len(repos)} = {e.metadata.repo_name : e \in collection}
            /\ \A i, j \in 1..Len(repos) : i < j => StringLess(repos[i], repos[j])
            /\ repos = ListRepositories(collection)
            /\ stats.total_repositories = Len(repos)
            /\ stats.total_chunks = Cardinality(collection)

\* get_stats on a store of four entries of three collections.
C17_Witness ==
    /\ LastCall("get_stats")
    /\ outcome.value.repositories = <<"r1", "r10", "r2">>
    /\ outcome.value.total_chunks = 4
    /\ outcome.value.total_repositories = 3

(***************************************************************************)
(* C18: for every query and every positive top_k, search returns at most   *)
(* top_k results (at most TOP_K without a top_k) and their similarity      *)
(* scores never increase along the list, the store answering its matches   *)
(* nearest first.                                                          *)
(***************************************************************************)
C18_SearchBounded ==
    (LastCall("search") /\ outcome.kind = "returned") =>
        LET res == outcome.value
        IN  /\ Len(res) <= Or(last_call.arg.top_k, TOP_K)
            /\ \A i, j \in 1..Len(res) : i < j => res[i].score >= res[j].score

\* search with top_k = 2 on a store of four entries has returned two results of
\* different scores.
C18_Witness ==
    /\ LastCall("search")
    /\ outcome.kind = "returned"
    /\ last_call.arg.top_k = Some(2)
    /\ Cardinality(collection) = 4
    /\ Len(outcome.value) = 2
    /\ outcome.value[1].score > outcome.value[2].score

(***************************************************************************)
(* C19: search returns exactly one result per match of the store's answer, *)
(* in the answer's order, each with the text and the metadata of the store *)
(* and the similarity 1 - distance; no match is dropped, and the number of *)
(* results is the smaller of top_k and the number of entries of the store. *)
(***************************************************************************)
C19_SearchFaithful ==
    (LastCall("search") /\ outcome.kind = "returned") =>
        LET res == outcome.value
            documents_0 == query_results.documents[1]
            metadatas_0 == query_results.metadatas[1]
            distances_0 == query_results.distances[1]
        IN  /\ Len(res) = Len(documents_0)
            /\ \A i \in 1..Len(res) :
                   /\ res[i].text = documents_0[i]
                   /\ res[i].metadata = metadatas_0[i]
                   /\ res[i].score = One - distances_0[i]
            /\ Len(res) = Min({Or(last_call.arg.top_k, TOP_K), Cardinality(collection)})

\* search has returned two results, the second of a negative similarity.
C19_Witness ==
    /\ LastCall("search")
    /\ outcome.kind = "returned"
    /\ Len(outcome.value) = 2
    /\ outcome.value[2].score < 0
    /\ outcome.value[2].text = query_results.documents[1][2]

(***************************************************************************)
(* C20: the construction of the index manager with an overlap that is not  *)
(* smaller than the chunk size fails with a configuration error, so that   *)
(* no indexer of such a configuration is ever ready for a call, no         *)
(* document is segmented and no embedding request is made.                 *)
(***************************************************************************)
C20_OverlapRejected ==
    env.CHUNK_OVERLAP >= env.CHUNK_SIZE =>
        /\ ipc \in {"new", "config_error"}
        /\ cpc = "idle"
        /\ embed_requests = <<>>

(***************************************************************************)
(* C21: the recovery path.  From any store, clear_repository(X) followed   *)
(* by index_documents(docs) with every document in the collection X, the   *)
(* embedding capability answering every request, ends successfully with    *)
(* the entries of X being one entry per chunk the segmenter produced for   *)
(* docs, each with the text of its chunk and none stale or twice, and with *)
(* the entries of every other collection as they were.                     *)
(***************************************************************************)
C21_RecoveryPath ==
    (/\ LastCall("index_documents")
     /\ ipc \in {"returned", "raised"}
     /\ documents # <<>>
     /\ last_call.recovering
     /\ outcome # Raised(EmbeddingError)) =>
        LET X == documents[1].repo_name
        IN  /\ outcome.kind = "returned"
            /\ Cardinality(EntriesOf(collection, X)) = segmented
            /\ \A e \in EntriesOf(collection, X) :
                   /\ e.embedding = Embedding(e.document)
                   /\ \E i \in 1..Len(documents) :
                          documents[i].path = e.metadata.file_path
            /\ \A repo \in Repositories \ {X} :
                   EntriesOf(collection, repo) = EntriesOf(store_before, repo)

(***************************************************************************)
(* C22: at every point of index_documents the working buffer holds at most *)
(* a fixed small multiple of the flush threshold of 25 chunks, here twice  *)
(* the threshold, however many documents there are and however many chunks *)
(* one document gives.                                                     *)
(***************************************************************************)
C22_BufferBounded == Len(current_batch_chunks) <= 2 * batch_size

(***************************************************************************)
(* C22, amended: between two documents the working buffer holds fewer      *)
(* chunks than the flush threshold, and after the chunks of a document     *)
(* were added it holds at most these chunks and threshold - 1 more: the    *)
(* bound depends on the chunks of one document and not on the number of    *)
(* documents.                                                              *)
(***************************************************************************)
C22_BufferBoundedByDocument ==
    Len(current_batch_chunks) <=
        batch_size - 1 +
            (IF ipc \in {"next_doc", "chunking"} THEN 0 ELSE Len(chunk_objects))

\* The chunks of a second document were added to a buffer that was not empty, and
\* the buffer holds more than twice the threshold.
C22_Witness ==
    /\ ipc = "flush"
    /\ doc_idx = 2
    /\ Len(current_batch_chunks) > 2 * batch_size
    /\ Len(current_batch_chunks) > Len(chunk_objects)

(***************************************************************************)
(* C23: when index_documents has indexed a document whose collection and   *)
(* path already have entries in the store, without a clear_repository      *)
(* before it and with sequence numbers for its chunks that the earlier     *)
(* entries do not have, the store holds the earlier entries and the new    *)
(* ones: for every chunk of the document an entry under the new id, next   *)
(* to the entries of the same collection and path it held before.          *)
(***************************************************************************)
C23_ReindexDuplicates ==
    (/\ LastCall("index_documents")
     /\ ipc \in {"returned", "raised"}
     /\ doc_idx >= 1
     /\ ~last_call.recovering
     /\ outcome # Raised(EmbeddingError)) =>
        LET d == documents[doc_idx]
            first == segmented - Len(chunk_objects)
            earlier == {e \in store_before :
                           /\ e.metadata.repo_name = d.repo_name
                           /\ e.metadata.file_path = d.path}
        IN  (earlier # {} /\ \A e \in earlier : e.id[3] < first) =>
                /\ earlier \subseteq collection
                /\ \A k \in 1..Len(chunk_objects) :
                       \E e \in collection :
                           /\ e.id = MakeId(d.repo_name, d.path, first + k - 1)
                           /\ e.document = chunk_objects[k].text

(***************************************************************************)
(* C25: in _split_by_size with 0 <= overlap < chunk_size the window start  *)
(* is never negative and is greater at every iteration than at every       *)
(* iteration before, also after a cut that was moved back to a break.      *)
(***************************************************************************)
C25_StartAdvances ==
    ValidConfig => (start >= 0 /\ \A earlier \in visited : earlier < start)

(***************************************************************************)
(* C24: in the size pass a window [start, start + chunk_size) that ends    *)
(* before the end of the segment is cut at the last paragraph break inside *)
(* the window that lies after the window start, else at the last line      *)
(* break inside the window that lies after the window start, else at       *)
(* start + chunk_size; a window that reaches the end of the segment is cut *)
(* at the end of the segment.  The chunk of the window is the trimmed text *)
(* from the window start to the cut, and after a window that ends before   *)
(* the end of the segment the next window starts overlap characters before *)
(* the cut.                                                                *)
(***************************************************************************)
\* The character at the 0-based position p of a text.
CharAt(t, p) == t[p + 1]

\* The cut as the sentence above places it.
ClaimedCut(t, s, size) ==
    LET end == s + size
        paragraph_breaks == {p \in (s + 1)..(end - 2) :
                                p >= 0 /\ CharAt(t, p) = NL /\ CharAt(t, p + 1) = NL}
        line_breaks == {p \in (s + 1)..(end - 1) : p >= 0 /\ CharAt(t, p) = NL}
    IN  IF end < Len(t)
        THEN IF paragraph_breaks # {} THEN Max(paragraph_breaks)
             ELSE IF line_breaks # {} THEN Max(line_breaks)
             ELSE end
        ELSE Len(t)

C24_CutPlacement ==
    [][SplitStep =>
          LET cut == ClaimedCut(text, start, chunk_size)
          IN  /\ chunks' = Append(chunks, Strip(SubSeq(text, Max({start, 0}) + 1, cut)))
              /\ (start + chunk_size < Len(text) => start' = cut - chunk_overlap)]_vars

(***************************************************************************)
(* C26: every embedding request carries at most 25 texts, and              *)
(* _generate_embeddings returns for an input of any length one vector per  *)
(* text, the i-th vector being that of the i-th text: the requests it      *)
(* issues hold the texts of the input in order, 25 per request but the     *)
(* last, and it stops at the first request that fails.                     *)
(***************************************************************************)
C26_SubBatching ==
    /\ \A r \in 1..Len(embed_requests) : Len(embed_requests[r]) <= 25
    /\ LastCall("_generate_embeddings") =>
           LET texts == last_call.arg
               sent == Flatten(embed_requests)
           IN  /\ Len(sent) <= Len(texts)
               /\ sent = SubSeq(texts, 1, Len(sent))
               /\ \A r \in 1..(Len(embed_requests) - 1) : Len(embed_requests[r]) = 25
               /\ outcome.kind = "returned" =>
                      /\ sent = texts
                      /\ Len(outcome.value) = Len(texts)
                      /\ \A i \in 1..Len(texts) : outcome.value[i] = Embedding(texts[i])

\* _generate_embeddings has returned 51 vectors it got with three requests.
C26_Witness ==
    /\ LastCall("_generate_embeddings")
    /\ outcome.kind = "returned"
    /\ Len(outcome.value) = 51
    /\ Len(embed_requests) = 3
    /\ Len(embed_requests[3]) = 1

(***************************************************************************)
(* C27: a DocumentChunker constructed with a chunk_size and a              *)
(* chunk_overlap argument with 0 <= chunk_overlap < chunk_size has exactly *)
(* these two values, chunk_overlap = 0 included, and an argument that is   *)
(* omitted has the configured default.                                     *)
(***************************************************************************)
C27_ExplicitArguments ==
    LastCall("DocumentChunker") =>
        LET size_arg == last_call.arg[1]
            overlap_arg == last_call.arg[2]
        IN  /\ (size_arg = None => chunk_size = env.CHUNK_SIZE)
            /\ (overlap_arg = None => chunk_overlap = env.CHUNK_OVERLAP)
            /\ (/\ size_arg # None
                /\ overlap_arg # None
                /\ 0 <= overlap_arg[1]
                /\ overlap_arg[1] < size_arg[1]) =>
                   /\ chunk_size = size_arg[1]
                   /\ chunk_overlap = overlap_arg[1]

(***************************************************************************)
(* C28: through the HTTP API at most one background indexing task runs at  *)
(* any time: a POST /api/index that arrives after another indexing request *)
(* was accepted and before the task of that request has finished is        *)
(* answered 409 and adds no task, so no two tasks are unfinished together. *)
(***************************************************************************)
C28_SingleTask ==
    /\ Cardinality(Unfinished(TaskPcs)) <= 1
    /\ (last_request.op = "POST /api/index" /\ last_request.unfinished # {})
           => last_request.code = 409

(***************************************************************************)
(* C29: the HTTP API never runs a clear operation (DELETE /api/clear,      *)
(* through clear_repository or clear_all) while a background indexing task *)
(* is between its first and its last flush.                                *)
(***************************************************************************)
C29_NoClearDuringFlush ==
    (last_request.op = "DELETE /api/clear" /\ last_request.code = 200)
        => last_request.flushing = {}

(***************************************************************************)
(* C30: every background indexing task POST /api/index has added          *)
(* eventually ends, and it ends with indexing_status.in_progress = False   *)
(* and a status of "completed" or "error".                                 *)
(***************************************************************************)
C30_TaskEnds ==
    \A i \in 1..MaxTasks :
        (tasks[i].pc = "queued") ~>
            (/\ tasks[i].pc = "done"
             /\ ~tasks[i].final.in_progress
             /\ tasks[i].final.status \in {"completed", "error"})

====
